---- MODULE Spec2Model ----
(***************************************************************************)
(* Column-sketch dictionary of colsketch.go: NewDict builds a sorted list  *)
(* of representative values from a sample, Encode maps a value to a 16-bit *)
(* code.  The value type T is instantiated with int (zero value 0).        *)
(*                                                                         *)
(* Slices are sequences; the Go indices (0-based) are kept in the loop     *)
(* states and turned into 1-based positions only where a sequence is read. *)
(* A Go loop is evaluated by Loop operators that run its body, in order,   *)
(* while its condition holds; the iteration budget they take is an upper   *)
(* bound on the number of iterations and is halved at each level, which    *)
(* keeps the evaluation depth logarithmic in the length of the slice.      *)
(* A value computed once and used several times is bound by \E x \in {e}.  *)
(***************************************************************************)
EXTENDS Integers, Sequences, FiniteSets, TLC

VARIABLES
    pc,         \* "idle" before NewDict, "refine" inside the loop of
                \* assignCodesWithMinimalStep, "done" once a Dict is returned,
                \* "panic" when NewDict died with a runtime panic
    mode,       \* NewDict's argument mode
    sample,     \* NewDict's argument sample
    clu,        \* assignCodesWithMinimalStep: clu
    ncodes,     \* assignCodesWithMinimalStep: ncodes
    codestep,   \* assignCodesWithMinimalStep: codestep
    codes,      \* assignCodesWithMinimalStep: codes
    i,          \* assignCodesWithMinimalStep: the loop counter i
    pass,       \* the last call of assignCodesWithStep: its step, runs, result
    truncated,  \* whether codes = codes[:ncodes] was executed
    dict,       \* the Dict NewDict returned (NoDict before)
    value,      \* argument of the last Encode call
    code,       \* result of the last Encode call
    length      \* result of the last Len call

vars == <<pc, mode, sample, clu, ncodes, codestep, codes, i, pass, truncated,
          dict, value, code, length>>

(***************************************************************************)
(* Bounds of the model.                                                    *)
(***************************************************************************)
MaxVal == 1          \* small samples hold the values -MaxVal..MaxVal
MaxLen == 3          \* small samples have at most MaxLen elements
MaxMode == 2         \* modes 0..MaxMode are passed to NewDict
MaxExtra == 1        \* cluster counts of the large samples: budget+0..MaxExtra
MaxCount == 2        \* occurrence counts 1..MaxCount in the large samples
MaxNcodes == 3       \* SpecAssign: ncodes in 1..MaxNcodes
MaxClusters == 5     \* SpecAssign: at most MaxClusters clusters
MaxClusterCount == 3 \* SpecAssign: cluster counts 1..MaxClusterCount

(***************************************************************************)
(* Code and Mode.                                                          *)
(***************************************************************************)
CodeWidth == 65536   \* Code is a uint16

Byte == 0
Word == 1

IsExact(c) == c % 2 = 0

NumExactCodes(m) ==
    CASE m = Byte -> 127
      [] m = Word -> 32767
      [] OTHER -> 0

MaxExactCode(m) ==
    CASE m = Byte -> 254
      [] m = Word -> 65534
      [] OTHER -> 0

MaxInexactCode(m) ==
    CASE m = Byte -> 255
      [] m = Word -> 65535
      [] OTHER -> 0

(***************************************************************************)
(* cmp.Compare and cmp.Less on T = int.                                    *)
(***************************************************************************)
Compare(a, b) == IF a < b THEN -1 ELSE IF a > b THEN 1 ELSE 0

Less(a, b) == a < b

Zero == 0

NoDict == [mode |-> -1, codes |-> <<>>]
NoValue == "none"

(***************************************************************************)
(* sort.Slice with cmp.Less (lines 98-101): the result is the ascending    *)
(* arrangement of the sample, computed here by binary insertion.           *)
(***************************************************************************)
RECURSIVE InsertPos(_, _, _, _)
InsertPos(out, v, lo, hi) ==
    IF lo >= hi THEN lo
    ELSE LET h == (lo + hi) \div 2
         IN  IF Less(v, out[h + 1]) THEN InsertPos(out, v, lo, h)
             ELSE InsertPos(out, v, h + 1, hi)

SortInsert(out, n, v) ==
    LET p == InsertPos(out, v, 0, n)
    IN  SubSeq(out, 1, p) \o <<v>> \o SubSeq(out, p + 1, n)

RECURSIVE SortLoop(_, _, _, _)
SortLoop(s, n, st, budget) ==
    IF st.k >= n THEN st
    ELSE IF budget <= 1
         THEN [k |-> st.k + 1, out |-> SortInsert(st.out, st.k, s[st.k + 1])]
         ELSE SortLoop(s, n, SortLoop(s, n, st, budget \div 2),
                       budget - (budget \div 2))

SortSliceNone(s) == s

SortSlice(s) == SortLoop(s, Len(s), [k |-> 0, out |-> <<>>], Len(s)).out

(***************************************************************************)
(* clusters (lines 148-167): frequency analysis of a sorted sample.        *)
(***************************************************************************)
ClustersBody(s, st) ==
    IF Compare(s[st.k + 1], st.curr) = 0
    THEN [st EXCEPT !.k = @ + 1, !.count = @ + 1]
    ELSE [k |-> st.k + 1, curr |-> s[st.k + 1], count |-> 1,
          clu |-> Append(st.clu, [value |-> st.curr, count |-> st.count])]

RECURSIVE ClustersLoop(_, _, _, _)
ClustersLoop(s, n, st, budget) ==
    IF st.k >= n THEN st
    ELSE IF budget <= 1 THEN ClustersBody(s, st)
         ELSE ClustersLoop(s, n, ClustersLoop(s, n, st, budget \div 2),
                           budget - (budget \div 2))

clustersDropLast(sortedSample) ==
    LET n == Len(sortedSample)
    IN  IF n = 0 THEN <<>>
        ELSE ClustersLoop(sortedSample, n,
                          [k |-> 0, curr |-> sortedSample[1], count |-> 0,
                           clu |-> <<>>], n).clu

clusters(sortedSample) ==
    LET n == Len(sortedSample)
    IN  IF n = 0 THEN <<>>
        ELSE LET st == ClustersLoop(sortedSample, n,
                         [k |-> 0, curr |-> sortedSample[1], count |-> 0,
                          clu |-> <<>>], n)
             IN  Append(st.clu, [value |-> st.curr, count |-> st.count])

(***************************************************************************)
(* assignCodesWithStep (lines 223-251).  Besides the codes, the operator   *)
(* records each run's firstIdx, lastIdx and idxWithMaxVal.                 *)
(***************************************************************************)
RunBody(c, st) ==
    [lastIdx |-> st.lastIdx + 1,
     idxWithMaxVal |->
        IF c[st.idxWithMaxVal + 1].count < c[st.lastIdx + 1].count
        THEN st.lastIdx ELSE st.idxWithMaxVal,
     clusterCountSum |-> st.clusterCountSum + c[st.lastIdx + 1].count]

RECURSIVE RunLoop(_, _, _, _, _)
RunLoop(step, c, n, st, budget) ==
    IF ~(st.lastIdx < n /\ st.clusterCountSum < step) THEN st
    ELSE IF budget <= 1 THEN RunBody(c, st)
         ELSE RunLoop(step, c, n, RunLoop(step, c, n, st, budget \div 2),
                      budget - (budget \div 2))

NextFirstIdxNoSkip(lastIdx) == lastIdx

NextFirstIdx(lastIdx) == lastIdx + 1

AssignBody(step, c, n, st) ==
    LET run == RunLoop(step, c, n,
                       [lastIdx |-> st.firstIdx, idxWithMaxVal |-> st.firstIdx,
                        clusterCountSum |-> 0], n)
    IN  [firstIdx |-> NextFirstIdx(run.lastIdx),
         codes |-> Append(st.codes, c[run.idxWithMaxVal + 1].value),
         runs |-> Append(st.runs, [firstIdx |-> st.firstIdx,
                                   lastIdx |-> run.lastIdx,
                                   idxWithMaxVal |-> run.idxWithMaxVal])]

RECURSIVE AssignLoop(_, _, _, _, _)
AssignLoop(step, c, n, st, budget) ==
    IF ~(st.firstIdx < n) THEN st
    ELSE IF budget <= 1 THEN AssignBody(step, c, n, st)
         ELSE AssignLoop(step, c, n, AssignLoop(step, c, n, st, budget \div 2),
                         budget - (budget \div 2))

assignCodesWithStep(step, c) ==
    LET n  == Len(c)
        st == AssignLoop(step, c, n,
                         [firstIdx |-> 0, codes |-> <<>>, runs |-> <<>>], n)
    IN  [codestep |-> step, codes |-> st.codes, runs |-> st.runs]

NoPass == [codestep |-> -1, codes |-> <<>>, runs |-> <<>>]

(***************************************************************************)
(* Dict.Encode (lines 123-133) and Dict.Len (lines 136-138).               *)
(***************************************************************************)
RECURSIVE SearchGreater(_, _, _, _)
SearchGreater(s, v, lo, hi) ==
    IF lo >= hi THEN lo
    ELSE LET h == (lo + hi) \div 2
         IN  IF ~(Compare(s[h + 1], v) > 0) THEN SearchGreater(s, v, h + 1, hi)
             ELSE SearchGreater(s, v, lo, h)

RECURSIVE Search(_, _, _, _)
Search(s, v, lo, hi) ==
    IF lo >= hi THEN lo
    ELSE LET h == (lo + hi) \div 2
         IN  IF ~(Compare(s[h + 1], v) >= 0) THEN Search(s, v, h + 1, hi)
             ELSE Search(s, v, lo, h)

ToCode(n) == n % CodeWidth

DecrementSaturating(c) == IF c = 0 THEN 0 ELSE c - 1

Increment(c) == (c + 1) % CodeWidth

Decrement(c) == (c + CodeWidth - 1) % CodeWidth

Encode(d, v) ==
    LET n   == Len(d.codes)
        idx == Search(d.codes, v, 0, n)
        c   == ToCode(2 * (idx + 1))
    IN  IF idx >= n \/ Compare(d.codes[idx + 1], v) # 0 THEN Decrement(c)
        ELSE c

DictLen(d) == Len(d.codes)

(***************************************************************************)
(* Inputs.  Small samples are all sequences over -MaxVal..MaxVal of length *)
(* at most MaxLen.  The large samples hold n distinct values 1..n whose    *)
(* occurrence counts alternate between a and b, in ascending or descending *)
(* order; n is taken around the exact-code budgets.                        *)
(***************************************************************************)
Values == (0 - MaxVal)..MaxVal

SmallSamples == UNION {[1..n -> Values] : n \in 0..MaxLen}

Modes == 0..MaxMode

AlternatingSize(n, a, b) == (n \div 2) * (a + b) + (n % 2) * a

AlternatingSample(n, a, b, descending) ==
    LET size == AlternatingSize(n, a, b)
        at(k) == LET p == (k - 1) \div (a + b)
                     o == (k - 1) % (a + b)
                 IN  IF o < a THEN 2 * p + 1 ELSE 2 * p + 2
    IN  SubSeq([k \in 1..size |-> IF descending THEN at(size + 1 - k)
                                   ELSE at(k)], 1, size)

MaxRefinements == 8

BiasScale == 10000

ByteClusterCounts ==
    {NumExactCodes(Byte) + d : d \in 0..MaxExtra}
    \cup {2 * NumExactCodes(Byte) - 2 + d : d \in 0..MaxExtra}

LargeCounts == {1, MaxRefinements + 1}

QueryValues ==
    ((0 - MaxVal - 1)..(MaxVal + 1))
    \cup {NumExactCodes(Byte) + d : d \in (0 - 1)..1}
    \cup {2 * NumExactCodes(Byte) + d : d \in (0 - 1)..1}
    \cup {NumExactCodes(Word) + d : d \in (0 - 1)..1}

SmallClusters ==
    UNION {{[k \in 1..n |-> [value |-> k, count |-> cnt[k]]] :
              cnt \in [1..n -> 1..MaxClusterCount]} : n \in 1..MaxClusters}

RECURSIVE SumCounts(_, _)
SumCounts(c, n) == IF n = 0 THEN 0 ELSE c[n].count + SumCounts(c, n - 1)

(***************************************************************************)
(* The state machine.                                                      *)
(***************************************************************************)
Init ==
    /\ pc = "idle"
    /\ mode = 0 - 1
    /\ sample = <<>>
    /\ clu = <<>>
    /\ ncodes = 0
    /\ codestep = 0
    /\ codes = <<>>
    /\ i = 0
    /\ pass = NoPass
    /\ truncated = FALSE
    /\ dict = NoDict
    /\ value = 0
    /\ code = 0 - 1
    /\ length = 0 - 1

\* return Dict[T]{mode, c} (lines 93, 115, 119)
Return(m, c) ==
    /\ dict' = [mode |-> m, codes |-> c]
    /\ pc' = "done"

InitialStepHalved(sampleSize, n) == sampleSize \div (2 * n)

InitialStep(sampleSize, n) == sampleSize \div n

\* assignCodesWithMinimalStep, lines 175-181: up to the loop.  A zero ncodes
\* makes the division of line 177 panic.
EnterAssign(sampleSize, n, c) ==
    /\ clu' = c
    /\ ncodes' = n
    /\ IF n = 0
       THEN /\ pc' = "panic"
            /\ UNCHANGED <<codestep, codes, i, pass, truncated, dict>>
       ELSE \E first \in {assignCodesWithStep(InitialStep(sampleSize, n), c)} :
                /\ codestep' = first.codestep
                /\ pass' = first
                /\ codes' = first.codes
                /\ i' = 0
                /\ pc' = "refine"
                /\ UNCHANGED <<truncated, dict>>

\* make([]T, 1), line 93
EmptySampleCodesNone == <<>>

EmptySampleCodes == <<Zero>>

\* len(clu) <= ncodes, line 110
FitsBudgetAlways(c, n) == TRUE

FitsBudget(c, n) == Len(c) <= n

\* codes[i] = clu[i].value for every i, lines 111-114
DirectCodes(c) == SubSeq([k \in 1..Len(c) |-> c[k].value], 1, Len(c))

\* NewDict, lines 88-120 (the loop of assignCodesWithMinimalStep excepted).
NewDict(m, s) ==
    /\ pc = "idle"
    /\ mode' = m
    /\ sample' = s
    /\ UNCHANGED <<value, code, length>>
    /\ IF Len(s) = 0
       THEN /\ Return(m, EmptySampleCodes)
            /\ UNCHANGED <<clu, ncodes, codestep, codes, i, pass, truncated>>
       ELSE \E sortedSample \in {SortSlice(s)} :
            \E c \in {clusters(sortedSample)} :
            LET n == NumExactCodes(m)
            IN  IF FitsBudget(c, n)
                THEN /\ Return(m, DirectCodes(c))
                     /\ UNCHANGED <<clu, ncodes, codestep, codes, i, pass,
                                    truncated>>
                ELSE EnterAssign(Len(s), n, c)

NewDictSmall == \E m \in Modes, s \in SmallSamples : NewDict(m, s)

NewDictLarge ==
    \E m \in Modes, n \in ByteClusterCounts, a \in LargeCounts,
       b \in 1..MaxCount, descending \in BOOLEAN :
        \E s \in {AlternatingSample(n, a, b, descending)} : NewDict(m, s)

NewDictFull ==
    \E n \in {NumExactCodes(Word), NumExactCodes(Word) + 1} :
        \E s \in {AlternatingSample(n, 1, 1, FALSE)} : NewDict(Word, s)

Bias(produced, n) == (produced * BiasScale) \div n

RefinedStep(step, bias) == (step * bias) \div BiasScale

Accepts(next, n) == Len(next) < n

\* One iteration of the loop of assignCodesWithMinimalStep, lines 190-217.
RefineStep ==
    /\ pc = "refine"
    /\ UNCHANGED <<mode, sample, clu, ncodes, value, code, length>>
    /\ IF ~(i < MaxRefinements) \/ Len(codes) = ncodes
       THEN /\ Return(mode, codes)
            /\ UNCHANGED <<codestep, codes, i, pass, truncated>>
       ELSE IF Len(codes) > ncodes
       THEN /\ codes' = SubSeq(codes, 1, ncodes)
            /\ truncated' = TRUE
            /\ Return(mode, codes')
            /\ UNCHANGED <<codestep, i, pass>>
       ELSE \E bias \in {Bias(Len(codes), ncodes)} :
            \E next \in {assignCodesWithStep(RefinedStep(codestep, bias), clu)} :
                /\ codestep' = next.codestep
                /\ pass' = next
                /\ UNCHANGED truncated
                /\ IF Accepts(next.codes, ncodes)
                   THEN /\ codes' = next.codes
                        /\ i' = i + 1
                        /\ UNCHANGED <<pc, dict>>
                   ELSE /\ Return(mode, codes)
                        /\ UNCHANGED <<codes, i>>

EncodeCall ==
    /\ pc = "done"
    /\ \E v \in QueryValues :
          /\ value' = v
          /\ code' = Encode(dict, v)
    /\ UNCHANGED <<pc, mode, sample, clu, ncodes, codestep, codes, i, pass,
                   truncated, dict, length>>

LenCall ==
    /\ pc = "done"
    /\ length' = DictLen(dict)
    /\ UNCHANGED <<pc, mode, sample, clu, ncodes, codestep, codes, i, pass,
                   truncated, dict, value, code>>

Next == NewDictSmall \/ NewDictLarge \/ NewDictFull \/ RefineStep
        \/ EncodeCall \/ LenCall

Spec == Init /\ [][Next]_vars

\* assignCodesWithMinimalStep applied to every small cluster list with more
\* clusters than codes, the sample size being the sum of the counts.
AssignCall ==
    /\ pc = "idle"
    /\ \E n \in 1..MaxNcodes, c \in SmallClusters :
          /\ Len(c) > n
          /\ EnterAssign(SumCounts(c, Len(c)), n, c)
    /\ UNCHANGED <<mode, sample, value, code, length>>

NextAssign == AssignCall \/ RefineStep

SpecAssign == Init /\ [][NextAssign]_vars

(***************************************************************************)
(* Properties.                                                             *)
(***************************************************************************)
Range(s) == {s[k] : k \in 1..Len(s)}

StrictlyAscending(s) == \A k \in 1..(Len(s) - 1) : s[k] < s[k + 1]

ValidMode == mode \in {Byte, Word}

Built == pc = "done" /\ ValidMode

Adaptive == pass # NoPass

EncodeTable == [q \in QueryValues |-> Encode(dict, q)]

\* C1: a dictionary built with a valid mode holds at least one and at most
\* NumExactCodes(mode) values, on the direct path and on the adaptive path
\* after every refinement pass.
C1_LenWithinBudget ==
    /\ Built => 1 <= DictLen(dict) /\ DictLen(dict) <= NumExactCodes(mode)
    /\ (pc = "refine" /\ ValidMode) => 1 <= Len(codes) /\ Len(codes) <= ncodes

C1_Witness ==
    /\ Built
    /\ mode = Byte
    /\ Adaptive
    /\ i >= 2
    /\ DictLen(dict) < NumExactCodes(mode)

\* C2: the representative values of a built dictionary are strictly
\* ascending, and so is the result of every segmenting pass, a pass with
\* step 0 included.
C2_StrictlyAscending ==
    /\ Built => StrictlyAscending(dict.codes)
    /\ ValidMode => StrictlyAscending(pass.codes) /\ StrictlyAscending(codes)

C2_Witness ==
    /\ Built
    /\ Adaptive
    /\ pass.codestep = 0
    /\ Len(pass.codes) = Len(clu)
    /\ DictLen(dict) >= 2

\* C3: Encode is monotonically non-decreasing in the queried value.
C3_EncodeMonotonic ==
    Built =>
        \A enc \in {EncodeTable} :
            \A a, b \in QueryValues : a <= b => enc[a] <= enc[b]

C3_Witness ==
    /\ Built
    /\ mode = Word
    /\ DictLen(dict) = NumExactCodes(Word)
    /\ value = dict.codes[DictLen(dict)]
    /\ code = MaxExactCode(Word)

\* C4: the code of a value is exact iff the value is one of the
\* dictionary's representative values.
C4_ExactIffRepresentative ==
    Built =>
        \A enc \in {EncodeTable}, reps \in {Range(dict.codes)} :
            \A q \in QueryValues : IsExact(enc[q]) <=> q \in reps

C4_Witness ==
    /\ Built
    /\ Adaptive
    /\ code >= 0
    /\ ~IsExact(code)
    /\ value \in Range(sample)

\* C5: when a non-empty sample has at most NumExactCodes(mode) distinct
\* values, the representatives are its distinct values in ascending order
\* and the i-th smallest distinct value encodes to 2*i.
C5_OneCodePerDistinctValue ==
    (Built /\ Len(sample) > 0
           /\ Cardinality(Range(sample)) <= NumExactCodes(mode)) =>
        \A distinct \in {Range(sample)}, enc \in {EncodeTable} :
            /\ Range(dict.codes) = distinct
            /\ DictLen(dict) = Cardinality(distinct)
            /\ StrictlyAscending(dict.codes)
            /\ \A q \in QueryValues \cap distinct :
                  enc[q] = 2 * Cardinality({w \in distinct : w <= q})

C5_Witness ==
    /\ Built
    /\ Len(sample) > Cardinality(Range(sample))
    /\ Cardinality(Range(sample)) >= 2
    /\ \E j, k \in 1..Len(sample) : j < k /\ sample[j] > sample[k]
    /\ value \in Range(sample)
    /\ code = 4

\* C6: from an empty sample NewDict builds a dictionary of length 1 holding
\* the zero value: 0 encodes to 2, lesser values to 1, greater values to 3.
C6_EmptySample ==
    (Built /\ Len(sample) = 0) =>
        \A enc \in {EncodeTable} :
            /\ DictLen(dict) = 1
            /\ dict.codes[1] = 0
            /\ \A q \in QueryValues :
                  enc[q] = IF q = 0 THEN 2 ELSE IF q < 0 THEN 1 ELSE 3

C6_Witness ==
    /\ Built
    /\ Len(sample) = 0
    /\ value < 0
    /\ code = 1
    /\ length = 1

\* C7: NewDict with a mode other than Byte and Word reports an error,
\* returns no dictionary and does not reach the division by ncodes.
C7_InvalidModeRejected ==
    (pc # "idle" /\ ~ValidMode) =>
        /\ pc \notin {"done", "panic", "refine"}
        /\ dict = NoDict

\* C8: every code Encode returns lies in 1..MaxInexactCode(mode); a value
\* below the least representative encodes to 1 and a value above the greatest
\* to 2*Len()+1, which is 65535 for a Word dictionary of 32767 values.
C8_CodeRange ==
    Built =>
        \A enc \in {EncodeTable}, n \in {DictLen(dict)} :
            \A q \in QueryValues :
              /\ 1 <= enc[q] /\ enc[q] <= MaxInexactCode(mode)
              /\ q < dict.codes[1] => enc[q] = 1
              /\ q > dict.codes[n] => enc[q] = 2 * n + 1

C8_Witness ==
    /\ Built
    /\ mode = Word
    /\ DictLen(dict) = NumExactCodes(Word)
    /\ value > dict.codes[DictLen(dict)]
    /\ code = MaxInexactCode(Word)

\* The cluster at a run's lastIdx, when there is one, is not the run's
\* representative, and the next run, when there is one, starts at lastIdx+1.
SkipsBoundaryCluster(p) ==
    \A emitted \in {Range(p.codes)}, n \in {Len(clu)}, nruns \in {Len(p.runs)} :
        \A r \in 1..nruns :
            LET last == p.runs[r].lastIdx
            IN  /\ last < n => clu[last + 1].value \notin emitted
                /\ r < nruns => p.runs[r + 1].firstIdx = last + 1

\* C9 as stated: in every pass of assignCodesWithStep, step 0 included, the
\* cluster at lastIdx is skipped and never emitted.
C9_SkipsBoundaryCluster_AnyStep == Adaptive => SkipsBoundaryCluster(pass)

\* C9 as amended: in every pass with step >= 1 the cluster at lastIdx is
\* skipped and never emitted; in a pass with step 0 every run is empty and
\* every cluster is emitted.
C9_SkipsBoundaryCluster ==
    Adaptive =>
        /\ pass.codestep >= 1 => SkipsBoundaryCluster(pass)
        /\ pass.codestep = 0 =>
              pass.codes = [k \in 1..Len(clu) |-> clu[k].value]

C9_Witness ==
    /\ Adaptive
    /\ i >= 1
    /\ pass.codestep >= 1
    /\ Len(pass.runs) >= 2
    /\ pass.runs[1].lastIdx < Len(clu)

\* C10: on the adaptive path the first pass yields at most ncodes codes,
\* every later value of codes has fewer than ncodes entries, and the
\* truncation codes = codes[:ncodes] is never executed.
C10_NoTruncation ==
    Adaptive =>
        /\ ~truncated
        /\ Len(codes) <= ncodes
        /\ i >= 1 => Len(codes) < ncodes
        /\ pc = "done" => dict.codes = codes

C10_Witness ==
    /\ Adaptive
    /\ pc = "done"
    /\ i = 0
    /\ Len(codes) = ncodes
    /\ Len(clu) > ncodes

====
